---- MODULE Spec2Model ----
(***************************************************************************)
(* Model of the persistent transcription queue of discord-transcribe:      *)
(*   src/client/database.py   Database (queue + transcriptions tables,     *)
(*                            asyncio.Event task_available)                *)
(*   src/cogs/transcribe.py   Transcribe.transcribe (admission)            *)
(*   src/utils/transcriber.py Transcriber.process_queue (worker loop)      *)
(*   src/main.py              Bot.on_start, Bot.delete_outdated            *)
(* Every coroutine is cut at its await points: one action is the code      *)
(* between two awaits that touches shared state.                           *)
(***************************************************************************)
EXTENDS Integers, Sequences, FiniteSets, TLC

\* ------------------------------------------------------------------ bounds
MaxJobs == 2          \* admissions that may be started in one behaviour
MaxRestarts == 1      \* process restarts in one behaviour
MaxNow == 691200      \* the clock stops advancing here (8 days)

\* ------------------------------------------------------- program constants
DaySeconds == 86400         \* database.py:206   days * 86400
RetentionDays == 7          \* database.py:196   days: int = 7
MaxDuration == 60           \* transcribe.py:71  duration_secs > 60
VoiceFlagShift == 13        \* transcribe.py:28  flags.value >> 13
CooldownSeconds == 20       \* transcribe.py:49  commands.cooldown(1, 20, user)

\* ------------------------------------------------------------ input space
Locale == "en-US"
Slots == {1, 2}             \* concurrently running transcribe invocations
Users == {1, 2}
Owners == {1}               \* main.py:41 owner_ids
Messages == {100, 101, 102, 103}
Texts == {"hello"}
Workers == {1, 2}
CoarseSteps == {691200}     \* clock advances of SpecCache (8 days)
DaySteps == {86400}         \* clock advances of SpecTTL (1 day)
TTLTimes == {0, 86399, 86400, 86401}   \* created_at values of SpecTTL

\* discord.Message attributes read by the command (immutable per message)
Attachments(m) == IF m = 102 THEN 0 ELSE 1
Flags(m) == CASE m = 102 -> 0
              [] m = 103 -> 4096
              [] OTHER -> 8192
DurationSecs(m) == CASE m = 101 -> 61
                     [] OTHER -> 5
ChannelOf(m) == IF m \in Messages THEN 9 ELSE 0

VARIABLES
  tables,          \* persisted: the two tables exist (CREATE TABLE IF NOT EXISTS ran once)
  queue,           \* persisted: rows of table queue, in id order
  qseq,            \* persisted: next AUTOINCREMENT id of queue
  transcriptions,  \* persisted: rows of table transcriptions
  tseq,            \* persisted: next AUTOINCREMENT id of transcriptions
  task_available,  \* Database.task_available (asyncio.Event value)
  queue_size,      \* Transcriber.queue_size ("None" until on_start assigns it)
  boot,            \* position of Bot.on_start, and the size it read
  req,             \* the running invocations of Transcribe.transcribe
  wk,              \* the process_queue tasks
  consumers,       \* the process_queue tasks on_start creates
  now,             \* UTC clock, epoch seconds
  restarts,        \* number of restarts (bounds the behaviour)
  dequeued,        \* history: ids of the rows returned by Database.get, in order, with the caller
  crashQueue,      \* history: the queue rows at the last restart
  evicted,         \* history: the rows delete_outdated removed
  stored           \* history: the job and the result id of every add_transcription, in order

vars == <<tables, queue, qseq, transcriptions, tseq, task_available, queue_size,
          boot, req, wk, consumers, now, restarts,
          dequeued, crashQueue, evicted, stored>>

persisted == <<tables, queue, qseq, transcriptions, tseq>>
history == <<dequeued, crashQueue, evicted, stored>>

\* ------------------------------------------------------------- pure parts
\* Transcribe.has_voice_note: message.attachments and message.flags.value >> 13
has_voice_note(m) == Attachments(m) > 0 /\ (Flags(m) \div (2 ^ VoiceFlagShift)) # 0

\* SELECT COUNT(*) FROM queue WHERE user_id = ?
user_in_queue(q, u) == \E i \in 1..Len(q) : q[i].user_id = u

\* SELECT COUNT(*) FROM queue WHERE message_id = ?
message_in_queue(q, m) == \E i \in 1..Len(q) : q[i].message_id = m

\* SELECT * FROM transcriptions WHERE message_id = ? AND channel_id = ?  (fetchone)
MatchingRows(t, m, c) == {r \in t : r.message_id = m /\ r.channel_id = c}
NoRow == [id |-> 0, message_id |-> 0, channel_id |-> 0, text |-> "", created_at |-> 0]
\* a lookup that never finds a row
get_transcription_miss(t, m, c) == NoRow
get_transcription(t, m, c) ==
  IF MatchingRows(t, m, c) = {} THEN NoRow
  ELSE CHOOSE r \in MatchingRows(t, m, c) : \A o \in MatchingRows(t, m, c) : r.id <= o.id

\* SELECT * FROM queue ORDER BY id ASC LIMIT 1
OldestIndex(q) == CHOOSE i \in 1..Len(q) : \A j \in 1..Len(q) : q[i].id <= q[j].id
NewestIndex(q) == CHOOSE i \in 1..Len(q) : \A j \in 1..Len(q) : q[i].id >= q[j].id
NoJob == [id |-> 0, user_id |-> 0, message_id |-> 0, channel_id |-> 0, locale |-> Locale]
\* ORDER BY id DESC in place of ASC
SelectNewest(q) == IF Len(q) = 0 THEN NoJob ELSE q[NewestIndex(q)]
SelectOldest(q) == IF Len(q) = 0 THEN NoJob ELSE q[OldestIndex(q)]

\* DELETE FROM queue WHERE id = ?
RECURSIVE DeleteById(_, _)
DeleteById(q, id) ==
  IF q = <<>> THEN <<>>
  ELSE IF Head(q).id = id THEN DeleteById(Tail(q), id)
       ELSE <<Head(q)>> \o DeleteById(Tail(q), id)

\* INSERT INTO queue (user_id, message_id, channel_id, locale)
InsertJob(q, id, u, m, c) ==
  Append(q, [id |-> id, user_id |-> u, message_id |-> m, channel_id |-> c, locale |-> Locale])

\* CREATE TABLE after DROP TABLE: the rows are gone
RecreateQueueTable(q) == <<>>
\* CREATE TABLE IF NOT EXISTS queue: an existing table keeps its rows
CreateQueueTable(q) == q

\* created_at <= ? in place of created_at < ?
OutdatedInclusive(r, t, days) == r.created_at <= t - days * DaySeconds
\* DELETE FROM transcriptions WHERE created_at < now - days * 86400
Outdated(r, t, days) == r.created_at < t - days * DaySeconds

IdleReq == [pc |-> "idle", user |-> 0, msg |-> 0, outcome |-> "none", position |-> 0,
            inU |-> "unread", inM |-> "unread", hit |-> "unread", had |-> FALSE,
            enq |-> FALSE, job |-> 0]
OffWorker == [pc |-> "off", task |-> NoJob, text |-> ""]

YesNo(b) == IF b THEN "yes" ELSE "no"
Busy == {s \in Slots : req[s].pc # "idle"}
\* commands.cooldown(1, 20, BucketType.user): the user's bucket is charged by an
\* invocation that is running or has answered without reset_cooldown
Charged(u) == \E s \in Slots : req[s].user = u /\ req[s].pc # "idle"
                 /\ req[s].outcome \in {"none", "cached", "added", "starting", "error"}
None == <<>>
\* history value: is a result stored for the message and its channel
StoredFor(m) == YesNo(\E r \in transcriptions : r.message_id = m /\ r.channel_id = ChannelOf(m))

\* asyncio.Event.set(): the value becomes true and every waiter's future is resolved
EventSet(w) == [x \in Workers |-> IF w[x].pc = "blocked" THEN [w[x] EXCEPT !.pc = "woken"] ELSE w[x]]

\* ------------------------------------------------------------------- Init
Booting == [pc |-> "init", size |-> 0]

Init ==
  /\ tables = FALSE /\ queue = <<>> /\ qseq = 1
  /\ transcriptions = {} /\ tseq = 1
  /\ task_available = FALSE
  /\ queue_size = None
  /\ boot = Booting
  /\ req = [s \in Slots |-> IdleReq]
  /\ wk = [w \in Workers |-> OffWorker]
  /\ consumers = {1}
  /\ now = 0
  /\ restarts = 0
  /\ dequeued = <<>> /\ crashQueue = <<>> /\ evicted = {} /\ stored = <<>>

\* --------------------------------------------- Transcribe.transcribe steps
\* The command is invoked: the cooldown bucket is charged, the reply is
\* deferred, and has_voice_note is evaluated.
Invoke(s, u, m) ==
  /\ req[s].pc = "idle"
  /\ \A o \in Slots : o < s => req[o].pc # "idle"
  /\ (qseq - 1) + Cardinality(Busy) < MaxJobs
  /\ \E elapsed \in {0, CooldownSeconds} : Charged(u) => elapsed >= CooldownSeconds
  /\ LET r == [IdleReq EXCEPT !.user = u, !.msg = m,
                 !.had = (MatchingRows(transcriptions, m, ChannelOf(m)) # {})]
     IN IF ~has_voice_note(m)
        THEN /\ req' = [req EXCEPT ![s] = [r EXCEPT !.pc = "respond", !.outcome = "no-voice-note"]]
        ELSE /\ req' = [req EXCEPT ![s] = [r EXCEPT !.pc = "check_user"]]
  /\ UNCHANGED <<persisted, task_available, queue_size, boot, wk, consumers, now,
                 restarts, history>>

\* user_in_queue without the is_owner exemption
CheckUserOwnersToo(s) ==
  /\ req[s].pc = "check_user"
  /\ LET r == req[s] IN
     IF ~tables
     THEN /\ req' = [req EXCEPT ![s].pc = "raised", ![s].outcome = "error"]
     ELSE IF user_in_queue(queue, r.user)
     THEN /\ req' = [req EXCEPT ![s].pc = "respond", ![s].outcome = "user-in-queue",
                                ![s].inU = "yes"]
     ELSE /\ req' = [req EXCEPT ![s].pc = "check_msg", ![s].inU = "no"]
  /\ UNCHANGED <<persisted, task_available, queue_size, boot, wk, consumers, now,
                 restarts, history>>

\* not await is_owner(author) and await user_in_queue(author.id)
CheckUser(s) ==
  /\ req[s].pc = "check_user"
  /\ LET r == req[s] IN
     IF r.user \in Owners
     THEN /\ req' = [req EXCEPT ![s].pc = "check_msg"]
     ELSE IF ~tables
     THEN /\ req' = [req EXCEPT ![s].pc = "raised", ![s].outcome = "error"]
     ELSE IF user_in_queue(queue, r.user)
     THEN /\ req' = [req EXCEPT ![s].pc = "respond", ![s].outcome = "user-in-queue",
                                ![s].inU = "yes"]
     ELSE /\ req' = [req EXCEPT ![s].pc = "check_msg", ![s].inU = "no"]
  /\ UNCHANGED <<persisted, task_available, queue_size, boot, wk, consumers, now,
                 restarts, history>>

\* await message_in_queue(message.id), then attachments[0].duration_secs > 60
CheckMessage(s) ==
  /\ req[s].pc = "check_msg"
  /\ LET r == req[s] IN
     IF ~tables
     THEN /\ req' = [req EXCEPT ![s].pc = "raised", ![s].outcome = "error"]
     ELSE IF message_in_queue(queue, r.msg)
     THEN /\ req' = [req EXCEPT ![s].pc = "respond", ![s].outcome = "message-in-queue",
                                ![s].inM = "yes"]
     ELSE IF DurationSecs(r.msg) > MaxDuration
     THEN /\ req' = [req EXCEPT ![s].pc = "respond", ![s].outcome = "too-long",
                                ![s].inM = "no"]
     ELSE /\ req' = [req EXCEPT ![s].pc = "check_cache", ![s].inM = "no"]
  /\ UNCHANGED <<persisted, task_available, queue_size, boot, wk, consumers, now,
                 restarts, history>>

\* "queue_size += 1" placed after the if chain: a cached answer counts as a job
CheckCacheCounts(s) ==
  /\ req[s].pc = "check_cache"
  /\ LET r == req[s]
         data == get_transcription(transcriptions, r.msg, ChannelOf(r.msg))
     IN IF ~tables
        THEN /\ req' = [req EXCEPT ![s].pc = "raised", ![s].outcome = "error"]
             /\ queue_size' = queue_size
        ELSE IF data.id # 0
        THEN /\ req' = [req EXCEPT ![s].pc = "respond", ![s].outcome = "cached",
                                   ![s].hit = StoredFor(r.msg)]
             /\ queue_size' = IF queue_size = None THEN None ELSE <<queue_size[1] + 1>>
        ELSE /\ req' = [req EXCEPT ![s].pc = "decide", ![s].hit = StoredFor(r.msg)]
             /\ queue_size' = queue_size
  /\ UNCHANGED <<persisted, task_available, boot, wk, consumers,
                 now, restarts, history>>

\* data := await get_transcription(message.id, message.channel.id)
CheckCache(s) ==
  /\ req[s].pc = "check_cache"
  /\ LET r == req[s]
         data == get_transcription(transcriptions, r.msg, ChannelOf(r.msg))
     IN IF ~tables
        THEN req' = [req EXCEPT ![s].pc = "raised", ![s].outcome = "error"]
        ELSE IF data.id # 0
        THEN req' = [req EXCEPT ![s].pc = "respond", ![s].outcome = "cached",
                                ![s].hit = StoredFor(r.msg)]
        ELSE req' = [req EXCEPT ![s].pc = "decide", ![s].hit = StoredFor(r.msg)]
  /\ UNCHANGED <<persisted, task_available, queue_size, boot, wk, consumers,
                 now, restarts, history>>

\* the else branch up to the call of add_to_queue:
\* task_available.is_set() chooses "added" (position queue_size + 1) or "starting"
Decide(s) ==
  /\ req[s].pc = "decide"
  /\ IF task_available
     THEN IF queue_size = None
          THEN req' = [req EXCEPT ![s].pc = "raised", ![s].outcome = "error"]
          ELSE req' = [req EXCEPT ![s].pc = "insert", ![s].outcome = "added",
                                  ![s].position = queue_size[1] + 1]
     ELSE req' = [req EXCEPT ![s].pc = "insert", ![s].outcome = "starting"]
  /\ UNCHANGED <<persisted, task_available, queue_size, boot, wk, consumers,
                 now, restarts, history>>

\* set() called before the INSERT is executed: the event is set, the row is not there
SignalBeforeCommit(s) ==
  /\ req[s].pc = "insert"
  /\ task_available' = TRUE
  /\ wk' = EventSet(wk)
  /\ req' = [req EXCEPT ![s].pc = "signal"]
  /\ UNCHANGED <<persisted, queue_size, boot, consumers, now, restarts, history>>

\* add_to_queue: INSERT INTO queue ...; commit
AddToQueue(s) ==
  /\ req[s].pc = "insert"
  /\ LET r == req[s] IN
     IF ~tables
     THEN /\ req' = [req EXCEPT ![s].pc = "raised", ![s].outcome = "error"]
          /\ UNCHANGED <<queue, qseq>>
     ELSE /\ queue' = InsertJob(queue, qseq, r.user, r.msg, ChannelOf(r.msg))
          /\ qseq' = qseq + 1
          /\ req' = [req EXCEPT ![s].pc = "signal", ![s].enq = TRUE, ![s].job = qseq]
  /\ UNCHANGED <<tables, transcriptions, tseq, task_available, queue_size, boot,
                 wk, consumers, now, restarts, history>>

\* add_to_queue: self.task_available.set(), after the commit returned
Signal(s) ==
  /\ req[s].pc = "signal"
  /\ task_available' = TRUE
  /\ wk' = EventSet(wk)
  /\ req' = [req EXCEPT ![s].pc = "count"]
  /\ UNCHANGED <<persisted, queue_size, boot, consumers, now, restarts,
                 history>>

\* self.transcriber.queue_size += 1
Count(s) ==
  /\ req[s].pc = "count"
  /\ IF queue_size = None
     THEN /\ req' = [req EXCEPT ![s].pc = "raised", ![s].outcome = "error"]
          /\ queue_size' = queue_size
     ELSE /\ req' = [req EXCEPT ![s].pc = "respond"]
          /\ queue_size' = <<queue_size[1] + 1>>
  /\ UNCHANGED <<persisted, task_available, boot, wk, consumers, now,
                 restarts, history>>

\* await ctx.respond(embed=embed), or the exception leaves the command
Finish(s) ==
  /\ req[s].pc \in {"respond", "raised"}
  /\ req' = [req EXCEPT ![s] = IdleReq]
  /\ UNCHANGED <<persisted, task_available, queue_size, boot, wk, consumers,
                 now, restarts, history>>

\* ----------------------------------------- Database.get / process_queue steps
\* get: SELECT * FROM queue ORDER BY id ASC LIMIT 1; fetchone
Select(w) ==
  /\ wk[w].pc = "select"
  /\ LET message == SelectOldest(queue) IN
     IF message.id # 0
     THEN wk' = [wk EXCEPT ![w].pc = "delete", ![w].task = message]
     ELSE wk' = [wk EXCEPT ![w].pc = "wait"]
  /\ UNCHANGED <<persisted, task_available, queue_size, boot, req, consumers,
                 now, restarts, history>>

\* get returns the selected row and leaves it in the queue while it is processed
ReturnWithoutDelete(w) ==
  /\ wk[w].pc = "delete"
  /\ dequeued' = Append(dequeued, [by |-> w, id |-> wk[w].task.id])
  /\ wk' = [wk EXCEPT ![w].pc = "dec"]
  /\ UNCHANGED <<persisted, task_available, queue_size, boot,
                 req, consumers, now, restarts, crashQueue, evicted, stored>>

\* get: DELETE FROM queue WHERE id = ?; commit; return dict(message)
Delete(w) ==
  /\ wk[w].pc = "delete"
  /\ queue' = DeleteById(queue, wk[w].task.id)
  /\ dequeued' = Append(dequeued, [by |-> w, id |-> wk[w].task.id])
  /\ wk' = [wk EXCEPT ![w].pc = "dec"]
  /\ UNCHANGED <<tables, qseq, transcriptions, tseq, task_available, queue_size, boot,
                 req, consumers, now, restarts, crashQueue, evicted, stored>>

\* the clear() placed before the wait(): a signal given since the SELECT is dropped
WaitAfterClear(w) ==
  /\ wk[w].pc = "wait"
  /\ task_available' = FALSE
  /\ wk' = [wk EXCEPT ![w].pc = "blocked"]
  /\ UNCHANGED <<persisted, queue_size, boot, req, consumers, now, restarts,
                 history>>

\* get: await self.task_available.wait(); an Event that is set returns at once
\* and the clear() follows without an await
Wait(w) ==
  /\ wk[w].pc = "wait"
  /\ IF task_available
     THEN /\ task_available' = FALSE
          /\ wk' = [wk EXCEPT ![w].pc = "select"]
     ELSE /\ task_available' = task_available
          /\ wk' = [wk EXCEPT ![w].pc = "blocked"]
  /\ UNCHANGED <<persisted, queue_size, boot, req, consumers, now, restarts,
                 history>>

\* the woken waiter clears the event and returns without reading the queue again
WakeReturns(w) ==
  /\ wk[w].pc = "woken"
  /\ task_available' = FALSE
  /\ wk' = [wk EXCEPT ![w].pc = "dec"]
  /\ UNCHANGED <<persisted, queue_size, boot, req, consumers, now, restarts,
                 history>>

\* get: the waiter resumes after set(); self.task_available.clear(); loop
Wake(w) ==
  /\ wk[w].pc = "woken"
  /\ task_available' = FALSE
  /\ wk' = [wk EXCEPT ![w].pc = "select"]
  /\ UNCHANGED <<persisted, queue_size, boot, req, consumers, now, restarts,
                 history>>

\* process_queue: client.transcriber.queue_size -= 1
Decrement(w) ==
  /\ wk[w].pc = "dec"
  /\ queue_size' = <<queue_size[1] - 1>>
  /\ wk' = [wk EXCEPT ![w].pc = "resolve"]
  /\ UNCHANGED <<persisted, task_available, boot, req, consumers, now,
                 restarts, history>>

\* process_queue: get_or_fetch_channel and channel.fetch_message answer.  A channel
\* of None and discord.NotFound leave the worker at its "continue" ("stale"); any
\* other exception ends the task.
Resolve(w) ==
  /\ wk[w].pc = "resolve"
  /\ \E r \in {"ok", "no_channel", "not_found", "error"} :
       wk' = [wk EXCEPT ![w].pc = CASE r = "ok" -> "pipeline"
                                    [] r = "error" -> "dead"
                                    [] OTHER -> "stale",
                        ![w].task = IF r = "error" THEN NoJob ELSE @]
  /\ UNCHANGED <<persisted, task_available, queue_size, boot, req, consumers,
                 now, restarts, history>>

\* the "continue" left out: the stale job goes on into the pipeline
SkipFallsThrough(w) ==
  /\ wk[w].pc = "stale"
  /\ wk' = [wk EXCEPT ![w].pc = "pipeline"]
  /\ UNCHANGED <<persisted, task_available, queue_size, boot, req, consumers,
                 now, restarts, history>>

\* process_queue: "if not channel: continue" and "except discord.NotFound: continue"
Skip(w) ==
  /\ wk[w].pc = "stale"
  /\ wk' = [wk EXCEPT ![w].pc = "select", ![w].task = NoJob]
  /\ UNCHANGED <<persisted, task_available, queue_size, boot, req, consumers,
                 now, restarts, history>>

\* process_queue: attachments[0].read, Audio.file_to_wav and transcribe_audiobytes
\* in the executor; an exception of any of them ends the task.
Pipeline(w) ==
  /\ wk[w].pc = "pipeline"
  /\ \/ \E t \in Texts : wk' = [wk EXCEPT ![w].pc = "put", ![w].text = t]
     \/ wk' = [wk EXCEPT ![w].pc = "dead", ![w].task = NoJob]
  /\ UNCHANGED <<persisted, task_available, queue_size, boot, req, consumers,
                 now, restarts, history>>

\* add_transcription: INSERT INTO transcriptions ... created_at = now; commit
AddTranscription(w) ==
  /\ wk[w].pc = "put"
  /\ transcriptions' = transcriptions \cup
        {[id |-> tseq, message_id |-> wk[w].task.message_id,
          channel_id |-> wk[w].task.channel_id, text |-> wk[w].text, created_at |-> now]}
  /\ tseq' = tseq + 1
  /\ stored' = Append(stored, [job |-> wk[w].task.id, result |-> tseq])
  /\ wk' = [wk EXCEPT ![w].pc = "reply"]
  /\ UNCHANGED <<tables, queue, qseq, task_available, queue_size, boot, req,
                 consumers, now, restarts, dequeued, crashQueue, evicted>>

\* process_queue: await message.reply(...); an exception ends the task
Reply(w) ==
  /\ wk[w].pc = "reply"
  /\ \E ok \in BOOLEAN :
       wk' = [wk EXCEPT ![w] = [pc |-> IF ok THEN "select" ELSE "dead", task |-> NoJob,
                                text |-> ""]]
  /\ UNCHANGED <<persisted, task_available, queue_size, boot, req, consumers,
                 now, restarts, history>>

\* ------------------------------------------------------------ Bot.on_start
\* initialize without the COUNT(*): the event keeps the value of its construction
InitializeKeepsSignal ==
  /\ boot.pc = "init"
  /\ tables' = TRUE
  /\ queue' = CreateQueueTable(queue)
  /\ boot' = [boot EXCEPT !.pc = "size"]
  /\ UNCHANGED <<qseq, transcriptions, tseq, task_available, wk, queue_size, req,
                 consumers, now, restarts, history>>

\* Database.initialize: CREATE TABLE IF NOT EXISTS; set the event if COUNT(*) > 0
Initialize ==
  /\ boot.pc = "init"
  /\ tables' = TRUE
  /\ queue' = CreateQueueTable(queue)
  /\ task_available' = IF Len(queue') > 0 THEN TRUE ELSE task_available
  /\ wk' = IF Len(queue') > 0 THEN EventSet(wk) ELSE wk
  /\ boot' = [boot EXCEPT !.pc = "size"]
  /\ UNCHANGED <<qseq, transcriptions, tseq, queue_size, req, consumers, now,
                 restarts, history>>

\* Database.get_queue_size: SELECT COUNT(*) FROM queue
GetQueueSize ==
  /\ boot.pc = "size"
  /\ boot' = [pc |-> "start", size |-> Len(queue)]
  /\ UNCHANGED <<persisted, task_available, queue_size, req, wk, consumers,
                 now, restarts, history>>

\* create_task(process_queue) called for every task of Workers
StartTwoWorkers ==
  /\ boot.pc = "start"
  /\ queue_size' = <<boot.size>>
  /\ wk' = [w \in Workers |-> [OffWorker EXCEPT !.pc = "select"]]
  /\ boot' = [pc |-> "up", size |-> 0]
  /\ UNCHANGED <<persisted, task_available, req, consumers, now, restarts,
                 history>>

\* on_start: queue_size = <the size read>; create_task(process_queue); start the loops
StartWorker ==
  /\ boot.pc = "start"
  /\ queue_size' = <<boot.size>>
  /\ wk' = [w \in Workers |-> IF w \in consumers THEN [OffWorker EXCEPT !.pc = "select"]
                                ELSE OffWorker]
  /\ boot' = [pc |-> "up", size |-> 0]
  /\ UNCHANGED <<persisted, task_available, req, consumers, now, restarts,
                 history>>

\* Bot.delete_outdated -> Database.delete_outdated(days = 7)
DeleteOutdated ==
  /\ boot.pc = "up"
  /\ transcriptions' = {r \in transcriptions : ~Outdated(r, now, RetentionDays)}
  /\ evicted' = evicted \cup {r \in transcriptions : Outdated(r, now, RetentionDays)}
  /\ UNCHANGED <<tables, queue, qseq, tseq, task_available, queue_size, boot, req,
                 wk, consumers, now, restarts, dequeued, crashQueue, stored>>

\* ------------------------------------------------------------ environment
\* The process stops and is started again: only the database file survives.
Restart ==
  /\ restarts < MaxRestarts
  /\ restarts' = restarts + 1
  /\ task_available' = FALSE
  /\ queue_size' = None
  /\ boot' = Booting
  /\ req' = [s \in Slots |-> IdleReq]
  /\ wk' = [w \in Workers |-> OffWorker]
  /\ crashQueue' = queue
  /\ UNCHANGED <<persisted, consumers, now, dequeued, evicted, stored>>

\* d seconds pass
Tick(d) ==
  /\ now + d <= MaxNow
  /\ now' = now + d
  /\ UNCHANGED <<persisted, task_available, queue_size, boot, req, wk, consumers,
                 restarts, history>>

\* ---------------------------------------------------------- specifications
\* Spec: two concurrent invocations, one worker, restarts; the clock stands still.
Next ==
  \/ \E s \in Slots, u \in Users, m \in Messages : Invoke(s, u, m)
  \/ \E s \in Slots : CheckUser(s)
  \/ \E s \in Slots : CheckMessage(s)
  \/ \E s \in Slots : CheckCache(s)
  \/ \E s \in Slots : Decide(s)
  \/ \E s \in Slots : AddToQueue(s)
  \/ \E s \in Slots : Signal(s)
  \/ \E s \in Slots : Count(s)
  \/ \E s \in Slots : Finish(s)
  \/ \E w \in Workers : Select(w)
  \/ \E w \in Workers : Delete(w)
  \/ \E w \in Workers : Wait(w)
  \/ \E w \in Workers : Wake(w)
  \/ \E w \in Workers : Decrement(w)
  \/ \E w \in Workers : Resolve(w)
  \/ \E w \in Workers : Skip(w)
  \/ \E w \in Workers : Pipeline(w)
  \/ \E w \in Workers : AddTranscription(w)
  \/ \E w \in Workers : Reply(w)
  \/ Initialize
  \/ GetQueueSize
  \/ StartWorker
  \/ Restart

Spec == Init /\ [][Next]_vars

\* SpecCache: one invocation at a time, one worker, the clock and the TTL sweep.
NextCache ==
  \/ \E u \in Users, m \in Messages : Invoke(1, u, m)
  \/ CheckUser(1)
  \/ CheckMessage(1)
  \/ CheckCache(1)
  \/ Decide(1)
  \/ AddToQueue(1)
  \/ Signal(1)
  \/ Count(1)
  \/ Finish(1)
  \/ Select(1)
  \/ Delete(1)
  \/ Wait(1)
  \/ Wake(1)
  \/ Decrement(1)
  \/ Resolve(1)
  \/ Skip(1)
  \/ Pipeline(1)
  \/ AddTranscription(1)
  \/ Reply(1)
  \/ Initialize
  \/ GetQueueSize
  \/ StartWorker
  \/ Restart
  \/ \E d \in CoarseSteps : Tick(d)
  \/ DeleteOutdated

SpecCache == Init /\ [][NextCache]_vars

\* SpecMulti: Database.get has two concurrent callers (two process_queue tasks).
InitMulti ==
  /\ tables = FALSE /\ queue = <<>> /\ qseq = 1
  /\ transcriptions = {} /\ tseq = 1
  /\ task_available = FALSE
  /\ queue_size = None
  /\ boot = Booting
  /\ req = [s \in Slots |-> IdleReq]
  /\ wk = [w \in Workers |-> OffWorker]
  /\ consumers = Workers
  /\ now = 0
  /\ restarts = 0
  /\ dequeued = <<>> /\ crashQueue = <<>> /\ evicted = {} /\ stored = <<>>

NextMulti ==
  \/ \E u \in Users, m \in Messages : Invoke(1, u, m)
  \/ CheckUser(1)
  \/ CheckMessage(1)
  \/ CheckCache(1)
  \/ Decide(1)
  \/ AddToQueue(1)
  \/ Signal(1)
  \/ Count(1)
  \/ Finish(1)
  \/ \E w \in Workers : Select(w)
  \/ \E w \in Workers : Delete(w)
  \/ \E w \in Workers : Wait(w)
  \/ \E w \in Workers : Wake(w)
  \/ \E w \in Workers : Decrement(w)
  \/ \E w \in Workers : Resolve(w)
  \/ \E w \in Workers : Skip(w)
  \/ \E w \in Workers : Pipeline(w)
  \/ \E w \in Workers : AddTranscription(w)
  \/ \E w \in Workers : Reply(w)
  \/ Initialize
  \/ GetQueueSize
  \/ StartWorker

SpecMulti == InitMulti /\ [][NextMulti]_vars

\* SpecLive: one invocation at a time and one worker, no restart; every step of
\* on_start, of a running invocation and of the worker that is enabled is
\* eventually taken (the event loop runs every task that is ready).
NextLive ==
  \/ \E u \in Users, m \in Messages : Invoke(1, u, m)
  \/ CheckUser(1)
  \/ CheckMessage(1)
  \/ CheckCache(1)
  \/ Decide(1)
  \/ AddToQueue(1)
  \/ Signal(1)
  \/ Count(1)
  \/ Finish(1)
  \/ Select(1)
  \/ Delete(1)
  \/ Wait(1)
  \/ Wake(1)
  \/ Decrement(1)
  \/ Resolve(1)
  \/ Skip(1)
  \/ Pipeline(1)
  \/ AddTranscription(1)
  \/ Reply(1)
  \/ Initialize
  \/ GetQueueSize
  \/ StartWorker

Fairness ==
  /\ WF_vars(Initialize) /\ WF_vars(GetQueueSize) /\ WF_vars(StartWorker)
  /\ WF_vars(CheckUser(1)) /\ WF_vars(CheckMessage(1)) /\ WF_vars(CheckCache(1))
  /\ WF_vars(Decide(1)) /\ WF_vars(AddToQueue(1)) /\ WF_vars(Signal(1))
  /\ WF_vars(Count(1)) /\ WF_vars(Finish(1))
  /\ WF_vars(Select(1)) /\ WF_vars(Delete(1)) /\ WF_vars(Wait(1)) /\ WF_vars(Wake(1))
  /\ WF_vars(Decrement(1)) /\ WF_vars(Resolve(1)) /\ WF_vars(Skip(1))
  /\ WF_vars(Pipeline(1)) /\ WF_vars(AddTranscription(1)) /\ WF_vars(Reply(1))

SpecLive == Init /\ [][NextLive]_vars /\ Fairness

\* SpecTTL: a started process whose cache holds up to three results of earlier
\* jobs, with creation times around the retention boundary; days pass and the
\* sweep runs.
TTLRow(i, c) == [id |-> i, message_id |-> 100, channel_id |-> ChannelOf(100),
                 text |-> "hello", created_at |-> c]

InitTTL ==
  /\ tables = TRUE /\ queue = <<>> /\ qseq = 4
  /\ \E c1 \in TTLTimes, c2 \in TTLTimes, c3 \in TTLTimes, keep \in SUBSET {1, 2, 3} :
       /\ c1 <= c2 /\ c2 <= c3
       /\ transcriptions = {r \in {TTLRow(1, c1), TTLRow(2, c2), TTLRow(3, c3)} : r.id \in keep}
  /\ tseq = 4
  /\ task_available = FALSE
  /\ queue_size = <<0>>
  /\ boot = [pc |-> "up", size |-> 0]
  /\ req = [s \in Slots |-> IdleReq]
  /\ wk = [w \in Workers |-> IF w = 1 THEN [OffWorker EXCEPT !.pc = "blocked"] ELSE OffWorker]
  /\ consumers = {1}
  /\ now \in {86400, 86401}
  /\ restarts = 0
  /\ dequeued = <<>> /\ crashQueue = <<>> /\ evicted = {} /\ stored = <<>>

NextTTL ==
  \/ \E d \in DaySteps : Tick(d)
  \/ DeleteOutdated

SpecTTL == InitTTL /\ [][NextTTL]_vars

TypeOK ==
  /\ tables \in BOOLEAN
  /\ task_available \in BOOLEAN
  /\ qseq \in 1..(MaxJobs + 2)
  /\ Len(queue) <= MaxJobs

\* ------------------------------------------------------------------ properties
\* C1 (FIFO): the ids returned by successive Database.get calls are strictly
\* increasing, and every returned id is smaller than the id of every job still
\* pending, so the jobs leave the queue in exactly the order of their ids.
C1_Fifo ==
  /\ \A i, j \in 1..Len(dequeued) : i < j => dequeued[i].id < dequeued[j].id
  /\ \A i \in 1..Len(dequeued), k \in 1..Len(queue) : dequeued[i].id < queue[k].id

\* two jobs have been dequeued and the second was enqueued while the first was pending
C1_Witness ==
  /\ Len(dequeued) = 2
  /\ \E s \in Slots : req[s].pc = "respond" /\ req[s].outcome = "added"

\* C2 (no lost wake-up), as stated: in no reachable state is the store
\* non-empty while a worker is suspended in wait() and the signal is unset.
C2_NeverBlockedOnPendingJob ==
  \A w \in consumers : ~(Len(queue) > 0 /\ wk[w].pc = "blocked" /\ ~task_available)

\* C2 (no lost wake-up), amended: a worker suspended in wait() never coexists
\* with a set signal, and it coexists with a pending job only while the enqueue
\* of a job has committed its row and is about to call set(); once that set()
\* has run the worker is no longer suspended.
C2_NoLostWakeup ==
  \A w \in consumers :
    wk[w].pc = "blocked" =>
      /\ ~task_available
      /\ Len(queue) > 0 => \E s \in Slots : req[s].pc = "signal"

\* an enqueue committed and signalled between the worker's empty SELECT and its wait()
C2_Witness ==
  /\ wk[1].pc = "wait" /\ task_available /\ Len(queue) > 0
  /\ \E s \in Slots : req[s].pc = "count"

\* C3 (one job per non-exempt submitter): the queue never holds two rows with
\* the same user_id unless that user is an owner.
C3_OneJobPerSubmitter ==
  \A i, j \in 1..Len(queue) :
    (i # j /\ queue[i].user_id = queue[j].user_id) => queue[i].user_id \in Owners

\* C4 (one job per message): the queue never holds two rows with the same
\* message_id, whoever submitted them.
C4_OneJobPerMessage ==
  \A i, j \in 1..Len(queue) : queue[i].message_id = queue[j].message_id => i = j

\* C5 (one result per source): the transcriptions table never holds two rows
\* with the same (message_id, channel_id).
C5_OneResultPerSource ==
  \A a, b \in transcriptions :
    (a.message_id = b.message_id /\ a.channel_id = b.channel_id) => a.id = b.id

Answered(s) == req[s].pc \in {"respond", "raised"}

\* C6 (cache short-circuit), as stated: an admission started when a result for
\* its (message, channel) was stored answers with the cached result and enqueues
\* nothing.
C6_CachedOnceStored ==
  \A s \in Slots :
    req[s].had => (~req[s].enq /\ (Answered(s) => req[s].outcome = "cached"))

\* C6 (cache short-circuit), amended: an admission whose cache lookup finds a
\* stored result answers with the cached result and enqueues nothing, and an
\* admission enqueues only after a lookup that found none.  (An admission
\* started after the result was stored can still be rejected by an earlier
\* rule, and finds nothing when the sweep removed the result before its lookup.)
C6_CacheHitShortCircuits ==
  \A s \in Slots :
    /\ req[s].hit = "yes" => (req[s].pc = "respond" /\ req[s].outcome = "cached" /\ ~req[s].enq)
    /\ req[s].enq => req[s].hit = "no"
    /\ req[s].outcome = "cached" => req[s].hit = "yes"

\* an admission started after the result was stored is answered from the cache
C6_Witness ==
  \E s \in Slots : req[s].pc = "respond" /\ req[s].had /\ req[s].outcome = "cached"
                  /\ req[s].hit = "yes" /\ qseq = 2

\* C7 (atomic pop): no row of the queue is returned by Database.get twice,
\* also when two callers run Database.get concurrently.
C7_NoJobReturnedTwice ==
  \A i, j \in 1..Len(dequeued) : dequeued[i].id = dequeued[j].id => i = j

IsPrefix(a, b) == Len(a) <= Len(b) /\ \A k \in 1..Len(a) : a[k] = b[k]
DequeuedAt(id) == {i \in 1..Len(dequeued) : dequeued[i].id = id}

\* C8 (restart durability): after a restart every job that was pending at the
\* restart is still in the queue or has since been returned by Database.get;
\* until the worker is started the persisted rows are intact and in order, and
\* the size on_start reads counts all of them; the jobs pending at the restart
\* are returned in their insertion order.
C8_RestartDurability ==
  restarts > 0 =>
    /\ \A k \in 1..Len(crashQueue) :
         \/ \E i \in 1..Len(queue) : queue[i] = crashQueue[k]
         \/ DequeuedAt(crashQueue[k].id) # {}
    /\ boot.pc # "up" => IsPrefix(crashQueue, queue)
    /\ boot.pc = "start" => (boot.size >= Len(crashQueue) /\ boot.size <= Len(queue))
    /\ \A k, l \in 1..Len(crashQueue) :
         (k < l /\ DequeuedAt(crashQueue[l].id) # {}) =>
            \E i \in DequeuedAt(crashQueue[k].id) :
              \A j \in DequeuedAt(crashQueue[l].id) : i < j

\* two jobs were pending at the restart and both were dequeued afterwards
C8_Witness ==
  /\ restarts > 0 /\ boot.pc = "up"
  /\ Len(crashQueue) = 2 /\ Len(dequeued) = 2 /\ queue = <<>>

\* C9 (TTL): a sweep at time now removes exactly the results with
\* created_at < now - 7 days and keeps every other result, the one created
\* exactly 7 days ago included.
C9_SweepExact ==
  [][DeleteOutdated =>
       transcriptions' = {r \in transcriptions :
                            r.created_at >= now - RetentionDays * DaySeconds}]_vars

\* a sweep has removed a result one second older than seven days and has kept
\* the result that is exactly seven days old
C9_Witness ==
  /\ \E r \in transcriptions : r.created_at = now - RetentionDays * DaySeconds
  /\ \E e \in evicted : e.created_at = now - RetentionDays * DaySeconds - 1
  /\ \A r \in transcriptions : r.created_at >= now - RetentionDays * DaySeconds

\* C10 (admission order), as stated: validation is the first rule, so a
\* submission whose message has no attachment, is no voice note or is longer
\* than 60 seconds is always answered with a validation failure.
C10_ValidationFirst ==
  \A s \in Slots :
    (req[s].pc = "respond"
       /\ (~has_voice_note(req[s].msg) \/ DurationSecs(req[s].msg) > MaxDuration))
    => req[s].outcome \in {"no-voice-note", "too-long"}

\* the first rule that matches, in the order of the code, over what the
\* admission read
FirstMatch(r) ==
  IF Attachments(r.msg) = 0 \/ Flags(r.msg) < 2 ^ VoiceFlagShift THEN {"no-voice-note"}
  ELSE IF r.user \notin Owners /\ r.inU = "yes" THEN {"user-in-queue"}
  ELSE IF r.inM = "yes" THEN {"message-in-queue"}
  ELSE IF DurationSecs(r.msg) > MaxDuration THEN {"too-long"}
  ELSE IF r.hit = "yes" THEN {"cached"}
  ELSE {"added", "starting"}

\* C10 (admission order), amended: the outcome of a submission is that of the
\* first matching rule in the order (1) no attachment or no voice note,
\* (2) non-exempt submitter already in queue, (3) message already in queue,
\* (4) duration over 60 seconds, (5) cached result, (6) accept and enqueue;
\* the rules after the matching one are not evaluated, and a job is enqueued
\* exactly on the accept path.
C10_FirstMatchInCodeOrder ==
  \A s \in Slots :
    req[s].pc = "respond" =>
      LET r == req[s] IN
      /\ r.outcome \in FirstMatch(r)
      /\ r.outcome = "no-voice-note" => (r.inU = "unread" /\ r.inM = "unread" /\ r.hit = "unread")
      /\ r.outcome = "user-in-queue" => (r.inM = "unread" /\ r.hit = "unread")
      /\ r.outcome \in {"message-in-queue", "too-long"} => r.hit = "unread"
      /\ r.outcome \in {"cached", "added", "starting"} =>
           (r.inM = "no" /\ (r.user \in Owners \/ r.inU = "no"))
      /\ r.enq <=> r.outcome \in {"added", "starting"}

\* a submitter with a pending job submits a voice note longer than 60 seconds
\* and is told "user-in-queue"
C10_Witness ==
  \E s \in Slots : /\ req[s].pc = "respond" /\ req[s].outcome = "user-in-queue"
                  /\ DurationSecs(req[s].msg) > MaxDuration

\* the position an accepted submission is told: queue_size + 1 with "added",
\* and the head of the queue with "starting"
Reported(r) == IF r.outcome = "added" THEN r.position ELSE 1

\* C11 (queue position): the position an accepted submission is told is the
\* number of rows in the queue at the moment of the decision, before its own
\* INSERT, plus one; with an empty queue it is 1.
C11_PositionIsPendingPlusOne ==
  [][\A s \in Slots :
       (req[s].pc = "decide" /\ req'[s].pc = "insert")
         => Reported(req'[s]) = Len(queue) + 1]_vars

\* the job a worker holds between Database.get and the end of its iteration
Holding(w) == wk[w].pc \in {"dec", "resolve", "stale", "pipeline", "put", "reply"}

\* C12 (skip on staleness): a worker whose job has an unresolvable channel or a
\* message that is not found holds the job it dequeued last, which is in the
\* queue no more; its next step writes no queue row and no result row, drops
\* the job without a reply, and takes it to the next Database.get.  Results are
\* written and replies sent only for the job the worker holds.
C12_SkipOnStaleness ==
  [][\A w \in consumers :
       /\ Holding(w) =>
            /\ wk[w].task.id = dequeued[Len(dequeued)].id
            /\ \A i \in 1..Len(queue) : queue[i].id # wk[w].task.id
       /\ (wk[w].pc = "stale" /\ wk'[w] # wk[w] /\ restarts' = restarts) =>
            /\ wk'[w] = [pc |-> "select", task |-> NoJob, text |-> ""]
            /\ queue' = queue /\ qseq' = qseq
            /\ transcriptions' = transcriptions /\ tseq' = tseq
       /\ transcriptions' # transcriptions /\ tseq' # tseq =>
            wk[w].pc = "put" /\ wk[w].task.id # 0]_vars

\* the first job was skipped (it left no result and the worker lives on), the
\* worker has dequeued the next job, and that one is stale as well
C12_Witness ==
  /\ restarts = 0 /\ Len(dequeued) = 2 /\ transcriptions = {}
  /\ wk[1].pc = "stale" /\ wk[1].task.id = 2

\* C13 (one bad job does not halt the queue): no failure of a step of the
\* pipeline ends the worker loop, so the process_queue task that on_start
\* created is never terminated.
C13_WorkerNeverTerminates == \A w \in consumers : wk[w].pc # "dead"

InQueue(id) == \E i \in 1..Len(queue) : queue[i].id = id
\* the job's own channel, message or pipeline failed: the worker holds it as
\* stale, or the worker ended while processing it
Failed(id) ==
  \E w \in consumers :
    \/ wk[w].pc = "stale" /\ wk[w].task.id = id
    \/ wk[w].pc = "dead" /\ Len(dequeued) > 0 /\ dequeued[Len(dequeued)].id = id
\* add_transcription has stored the pipeline's text for the job
PutDone(id) ==
  \E w \in consumers :
    /\ wk[w].pc = "reply" /\ wk[w].task.id = id
    /\ DequeuedAt(id) # {}
    /\ \E r \in transcriptions : /\ r.message_id = wk[w].task.message_id
                                  /\ r.channel_id = wk[w].task.channel_id
                                  /\ r.text = wk[w].text

\* C14 (end-to-end liveness): under fair scheduling every job in the queue is
\* eventually dequeued and, unless its own channel, message or pipeline fails,
\* a result with its message id, channel id and the pipeline's text is
\* eventually stored.
C14_EveryJobIsProcessed ==
  \A id \in 1..MaxJobs : InQueue(id) ~> (Failed(id) \/ PutDone(id))

\* C15 (signal after commit): an invocation that is about to call set() has
\* committed its row, which is in the queue unless Database.get has returned it
\* already; the signal becomes set only by such a call or by initialize over a
\* non-empty queue; a worker is woken only by such a call, and no row leaves
\* the queue between the wake-up and the woken worker's next read.
C15_SignalAfterCommit ==
  [][/\ \A s \in Slots :
          req[s].pc = "signal" =>
            /\ req[s].enq
            /\ InQueue(req[s].job) \/ DequeuedAt(req[s].job) # {}
     /\ (task_available' /\ ~task_available) =>
          \/ \E s \in Slots : req[s].pc = "signal" /\ req'[s].pc = "count"
          \/ boot.pc = "init" /\ Len(queue') > 0
     /\ \A w \in consumers :
          /\ (wk[w].pc # "woken" /\ wk'[w].pc = "woken") =>
               /\ wk[w].pc = "blocked"
               /\ \E s \in Slots : req[s].pc = "signal" /\ req'[s].pc = "count"
          /\ wk[w].pc = "woken" =>
               \A i \in 1..Len(queue) : \E k \in 1..Len(queue') : queue'[k] = queue[i]]_vars

\* the suspended worker has just been woken by the set() of an enqueue whose row
\* is in the queue
C15_Witness ==
  /\ wk[1].pc = "woken" /\ task_available
  /\ \E s \in Slots : req[s].pc = "count" /\ InQueue(req[s].job)

\* the worker is inside Database.get
InGet(w) == wk[w].pc \in {"select", "delete", "wait", "blocked", "woken"}

\* C16 (dequeue never returns empty): a step of Database.get either goes on
\* inside get or returns; it returns only by deleting the row it selected, which
\* was in the queue; a read of an empty queue leads to wait(); every return of
\* wait(), spurious or not, clears the signal and leads to a new read of the
\* queue; and the job process_queue is handed is never empty.
C16_GetReturnsARemovedJob ==
  [][\A w \in consumers :
       /\ (InGet(w) /\ wk'[w] # wk[w] /\ restarts' = restarts) =>
            \/ InGet(w)'
            \/ /\ wk[w].pc = "delete" /\ wk'[w].pc = "dec"
               /\ wk[w].task.id # 0 /\ wk'[w].task = wk[w].task
               /\ InQueue(wk[w].task.id)
               /\ Len(queue') = Len(queue) - 1
               /\ \A k \in 1..Len(queue') : queue'[k].id # wk[w].task.id
       /\ (wk[w].pc = "select" /\ wk'[w] # wk[w] /\ restarts' = restarts /\ Len(queue) = 0) =>
            wk'[w].pc = "wait"
       /\ (wk[w].pc \in {"wait", "woken"} /\ wk'[w].pc \notin {"wait", "woken", "blocked"}
              /\ restarts' = restarts) =>
            wk'[w].pc = "select" /\ ~task_available'
       /\ Holding(w) => wk[w].task.id # 0]_vars

\* a spurious wake-up is about to happen: the worker found the queue empty, the
\* signal is still set from the enqueue of the job it dequeued before, and no
\* invocation is running
C16_Witness ==
  /\ wk[1].pc = "wait" /\ task_available /\ Len(queue) = 0
  /\ Len(dequeued) = 1 /\ \A s \in Slots : req[s].pc = "idle"

C18_ResultsInJobOrder ==
  /\ Cardinality({w \in Workers : Holding(w)}) <= 1
  /\ \A i, j \in 1..Len(stored) :
       i < j => (stored[i].job < stored[j].job /\ stored[i].result < stored[j].result)

\* two jobs have been processed to their results
C18_Witness ==
  /\ Len(stored) = 2 /\ Cardinality(transcriptions) = 2
  /\ \E w \in consumers : wk[w].pc = "reply" /\ wk[w].task.id = stored[2].job

StoredJobs == {stored[i].job : i \in 1..Len(stored)}
\* the job was returned by Database.get, no result was stored for it and no
\* worker holds it
Abandoned(id) ==
  /\ DequeuedAt(id) # {}
  /\ id \notin StoredJobs
  /\ \A w \in Workers : ~(Holding(w) /\ wk[w].task.id = id)

\* C19 (removal before the pipeline): a worker that holds a job has deleted its
\* row from the queue.  A crash leaves the queue rows as they are: it keeps a
\* job that Database.get had not yet deleted, and a job that was dequeued and
\* had no result stored yet is then in the queue no more and has no result.
\* Such a job never comes back: it is never in the queue, never held by a
\* worker and never stored again.
C19_DequeuedJobLostByCrash ==
  [][/\ \A w \in consumers : Holding(w) => ~InQueue(wk[w].task.id)
     /\ restarts' # restarts =>
          /\ queue' = queue /\ transcriptions' = transcriptions
          /\ \A w \in consumers, id \in 1..(qseq - 1) :
               (Holding(w) /\ wk[w].pc # "reply" /\ wk[w].task.id = id) =>
                 /\ Abandoned(id)'
                 /\ \A k \in 1..Len(queue') : queue'[k].id # id
          /\ \A w \in consumers :
               wk[w].pc = "delete" => \E k \in 1..Len(queue') : queue'[k] = wk[w].task
     /\ \A id \in 1..(qseq - 1) :
          Abandoned(id) =>
            /\ Abandoned(id)'
            /\ \A k \in 1..Len(queue') : queue'[k].id # id]_vars

\* a job that was pending at a crash has been dequeued after the restart and is
\* in its pipeline, its row gone from the queue and no result stored for it
C19_Witness ==
  /\ restarts = 1 /\ wk[1].pc = "pipeline"
  /\ \E k \in 1..Len(crashQueue) : crashQueue[k] = wk[1].task
  /\ ~InQueue(wk[1].task.id) /\ wk[1].task.id \notin StoredJobs

Accepts == {"added", "starting"}
Rejections == {"no-voice-note", "too-long", "user-in-queue", "message-in-queue", "cached"}

\* C20 (frame of the outcomes other than accept): the steps of an invocation
\* outside add_to_queue and the count that follows it change no queue row, no
\* result row, not the signal and not queue_size; only invocations on the accept
\* path reach add_to_queue; an invocation that answers with a validation
\* failure, a duplicate or the cached result has inserted nothing; and a row is
\* added to the queue only by the INSERT of an invocation on the accept path.
C20_OnlyAcceptChangesState ==
  [][/\ \A s \in Slots :
          /\ (req'[s] # req[s] /\ restarts' = restarts
                 /\ req[s].pc \notin {"insert", "signal", "count"}) =>
               /\ queue' = queue /\ qseq' = qseq
               /\ transcriptions' = transcriptions /\ tseq' = tseq
               /\ task_available' = task_available
               /\ queue_size' = queue_size
          /\ req[s].pc \in {"insert", "signal", "count"} => req[s].outcome \in Accepts
          /\ req[s].outcome \in Rejections =>
               (req[s].pc = "respond" /\ ~req[s].enq /\ req[s].job = 0)
     /\ Len(queue') > Len(queue) =>
          \E s \in Slots : /\ req[s].pc = "insert" /\ req[s].outcome \in Accepts
                           /\ req'[s].pc = "signal"]_vars

\* a submission of a message that is in the queue has been rejected, and the
\* pending job, the signal and the count are as the accepted submission left them
C20_Witness ==
  /\ \E s \in Slots : req[s].pc = "respond" /\ req[s].outcome = "message-in-queue"
  /\ Len(queue) = 1 /\ qseq = 2 /\ task_available /\ queue_size = <<1>>
  /\ transcriptions = {}

\* an invocation is between the commit of its INSERT and its queue_size += 1
Counting(s) == req[s].pc \in {"signal", "count"}
\* a process_queue task is between the commit of get's DELETE and its queue_size -= 1
Uncounted(w) == wk[w].pc = "dec"
\* no admission and no process_queue task is inside one of those two windows
Quiescent == (\A s \in Slots : ~Counting(s)) /\ (\A w \in Workers : ~Uncounted(w))

\* C21 (the estimate follows the table): whenever queue_size has been assigned
\* and the state is quiescent, queue_size is the number of rows of the queue.
C21_QueueSizeIsRowCount ==
  (queue_size # None /\ Quiescent) => queue_size[1] = Len(queue)

\* the invocation in slot s takes the step that decides "starting"
DecidesStarting(s) ==
  req[s].pc = "decide" /\ req'[s].pc = "insert" /\ req'[s].outcome = "starting"

\* C22 ('starting' means nothing is ahead): an invocation decides "starting"
\* only while task_available is unset, and the queue holds no row at that step.
C22_StartingOnlyOnEmptyQueue ==
  [][\A s \in Slots : DecidesStarting(s) => (~task_available /\ Len(queue) = 0)]_vars
====
